---- MODULE Spec2Model ----
(***************************************************************************)
(* Model of the macro expansion of generic_transitive_from (src/lib.rs).   *)
(*                                                                         *)
(* The program is three macro_rules! macros.  An invocation of impl_from!  *)
(* is rewritten into nested impl_from! and                                 *)
(* __impl_from_internals_recursive! invocations, those into                *)
(* __impl_from_internals_make_impl! invocations, and those into `impl      *)
(* From<G> for P` items.  The state is the token stream `out`: a sequence  *)
(* of items, each a still pending macro invocation or an emitted impl.     *)
(* One action per macro rewrites one pending invocation in place by the    *)
(* macro's transcriber.  The macro definitions fix no order between        *)
(* pending invocations, so any of them may be rewritten next; the          *)
(* position of an item in `out` is its textual position in the expansion.  *)
(* After the expansion is complete, From::from of the resulting impls can  *)
(* be called on values (action Convert).                                   *)
(***************************************************************************)
EXTENDS Integers, Sequences, FiniteSets

VARIABLES
    generics,   \* the `[...]` list of the top-level invocation (token sequence)
    forest,     \* the type hierarchy of the top-level invocation
    out,        \* the expansion so far: pending invocations and emitted impls
    last        \* the last From::from call made on the finished expansion

vars == <<generics, forest, out, last>>

\* Largest number of types in a generated hierarchy.
MaxNodes == 4
\* Number of distinct payload values a converted value may carry.
NumVals == 2

-----------------------------------------------------------------------------
(* Input: token trees of the invocation.                                   *)

\* Type tokens, used in pre-order for generated hierarchies.
Alphabet == <<"A", "B", "C", "D", "E", "F", "G", "H", "I", "J", "K", "L">>

\* A `$ty` not followed by a `{ }` block.
Leaf(t) == [ty |-> t, block |-> FALSE, kids |-> <<>>]
\* A `$ty { ... }` with the given comma separated entries.
Block(t, ks) == [ty |-> t, block |-> TRUE, kids |-> ks]

\* Generic lists as in the doc example, the test and the empty list.
GenericsChoices == { <<>>, <<"'a">>, <<"'a", "T: Debug">> }

RECURSIVE AncSelf(_, _)
\* i and its ancestors (and 0, the position above the roots) under parent vector p.
AncSelf(p, i) == IF i = 0 THEN {0} ELSE {i} \cup AncSelf(p, p[i])

\* Parent vectors of the ordered forests on n nodes numbered in pre-order.
ParentVecs(n) ==
    { p \in [1..n -> 0..n] :
        \A i \in 1..n : /\ p[i] < i
                        /\ i > 1 => p[i] \in AncSelf(p, i - 1) }

\* Which nodes carry a `{ }` block: every node with an entry, and any leaf.
BlockVecs(n, p) ==
    { b \in [1..n -> BOOLEAN] : \A i \in 1..n : (\E j \in 1..n : p[j] = i) => b[i] }

RECURSIVE SortedSeq(_)
SortedSeq(S) ==
    IF S = {} THEN <<>>
    ELSE LET m == CHOOSE x \in S : \A y \in S : x <= y
         IN  <<m>> \o SortedSeq(S \ {m})

RECURSIVE BuildNode(_, _, _, _)
BuildNode(p, b, n, i) ==
    LET ks == SortedSeq({ j \in 1..n : p[j] = i })
    IN  [ty    |-> Alphabet[i],
         block |-> b[i],
         kids  |-> [k \in 1..Len(ks) |-> BuildNode(p, b, n, ks[k])]]

BuildForest(p, b, n) ==
    LET rs == SortedSeq({ j \in 1..n : p[j] = 0 })
    IN  [k \in 1..Len(rs) |-> BuildNode(p, b, n, rs[k])]

\* Every hierarchy of at most MaxNodes distinct types.
BoundedForests ==
    UNION { UNION { { BuildForest(p, b, n) : b \in BlockVecs(n, p) }
                    : p \in ParentVecs(n) }
            : n \in 0..MaxNodes }

\* The hierarchy A{B{E,F{J,K}},C{G},D{H,I{L}}}.
ExampleForest ==
    << Block("A", << Block("B", << Leaf("E"),
                                   Block("F", << Leaf("J"), Leaf("K") >>) >>),
                     Block("C", << Leaf("G") >>),
                     Block("D", << Leaf("H"),
                                   Block("I", << Leaf("L") >>) >>) >>) >>

-----------------------------------------------------------------------------
(* Items of the token stream.                                              *)

ImplFromCall(g, roots) ==
    [kind |-> "impl_from", generics |-> g, roots |-> roots]

RecursiveCall(g, root, child, list) ==
    [kind |-> "recursive", generics |-> g, root |-> root, child |-> child,
     list |-> list]

MakeImplCall(g, root, child, grandchild) ==
    [kind |-> "make_impl", generics |-> g, root |-> root, child |-> child,
     grandchild |-> grandchild]

\* impl<generics> From<grandchild> for root { <root>::from(<child>::from(g)) }
ImplItem(g, root, child, grandchild) ==
    [kind |-> "impl", generics |-> g, root |-> root, child |-> child,
     grandchild |-> grandchild]

RECURSIVE Flatten(_)
\* Concatenation of a sequence of sequences.
Flatten(ss) == IF ss = <<>> THEN <<>> ELSE Head(ss) \o Flatten(Tail(ss))

-----------------------------------------------------------------------------
(* The transcribers of the three macros.                                   *)

\* Mutation: the recursive! call is handed the child with its block instead
\* of the entries of the block.
ChildCallsIncludingChild(g, r) ==
    Flatten([j \in 1..Len(r.kids) |->
        IF r.kids[j].block
        THEN << RecursiveCall(g, r.ty, r.kids[j].ty, << r.kids[j] >>) >>
        ELSE << >>])

\* $( $( recursive!{ $generics[$root][$child][ grandchildren ] } )? )*
ChildCalls(g, r) ==
    Flatten([j \in 1..Len(r.kids) |->
        IF r.kids[j].block
        THEN << RecursiveCall(g, r.ty, r.kids[j].ty, r.kids[j].kids) >>
        ELSE << >>])

\* Mutation: a nested impl_from! is also emitted for every child with a block.
impl_from_nested_per_child(g, roots) ==
    Flatten([i \in 1..Len(roots) |->
        IF roots[i].block
        THEN << ImplFromCall(g, roots[i].kids) >>
             \o Flatten([j \in 1..Len(roots[i].kids) |->
                    IF roots[i].kids[j].block
                    THEN << ImplFromCall(g, << roots[i].kids[j] >>),
                            RecursiveCall(g, roots[i].ty, roots[i].kids[j].ty,
                                          roots[i].kids[j].kids) >>
                    ELSE << >>])
        ELSE << >>])

\* Mutation: the recursive! calls of a root stand before its nested impl_from!.
impl_from_children_last(g, roots) ==
    Flatten([i \in 1..Len(roots) |->
        IF roots[i].block
        THEN ChildCalls(g, roots[i]) \o << ImplFromCall(g, roots[i].kids) >>
        ELSE << >>])

\* impl_from!: for every root with a block, the nested impl_from! on its
\* entries, then one recursive! call per entry that has a block.
impl_from(g, roots) ==
    Flatten([i \in 1..Len(roots) |->
        IF roots[i].block
        THEN << ImplFromCall(g, roots[i].kids) >> \o ChildCalls(g, roots[i])
        ELSE << >>])

\* Mutation: the blocks of the grandchildren are not descended into.
impl_from_internals_recursive_shallow(g, root, child, list) ==
    Flatten([i \in 1..Len(list) |->
        << MakeImplCall(g, root, child, list[i].ty) >>])

\* Mutation: below a grandchild, the grandchild is passed on as the child.
impl_from_internals_recursive_via_grandchild(g, root, child, list) ==
    Flatten([i \in 1..Len(list) |->
        (IF list[i].block
         THEN << RecursiveCall(g, root, list[i].ty, list[i].kids) >>
         ELSE << >>)
        \o << MakeImplCall(g, root, child, list[i].ty) >>])

\* __impl_from_internals_recursive!: for every grandchild, the call on its
\* own block if it has one, then the make_impl! call for the grandchild.
impl_from_internals_recursive(g, root, child, list) ==
    Flatten([i \in 1..Len(list) |->
        (IF list[i].block
         THEN << RecursiveCall(g, root, child, list[i].kids) >>
         ELSE << >>)
        \o << MakeImplCall(g, root, child, list[i].ty) >>])

\* Mutation: the impl is emitted without the generics list.
impl_from_internals_make_impl_no_generics(g, root, child, grandchild) ==
    << ImplItem(<< >>, root, child, grandchild) >>

\* __impl_from_internals_make_impl!: the impl item.
impl_from_internals_make_impl(g, root, child, grandchild) ==
    << ImplItem(g, root, child, grandchild) >>

\* Replace the item at position i by the sequence new.
Splice(s, i, new) == SubSeq(s, 1, i - 1) \o new \o SubSeq(s, i + 1, Len(s))

Pending == { i \in 1..Len(out) : out[i].kind # "impl" }
Done == Pending = {}

-----------------------------------------------------------------------------
(* The declared hierarchy, read off the token trees.                       *)

RECURSIVE Types(_)
\* The types named in a comma separated list of entries.
Types(f) == UNION { {f[i].ty} \cup Types(f[i].kids) : i \in 1..Len(f) }

RECURSIVE Edges(_)
\* The <<parent, child>> pairs: a type and an entry of its block.
Edges(f) ==
    UNION { { <<f[i].ty, f[i].kids[j].ty>> : j \in 1..Len(f[i].kids) }
            \cup Edges(f[i].kids) : i \in 1..Len(f) }

HasParent(t) == \E e \in Edges(forest) : e[2] = t
Parent(t) == (CHOOSE e \in Edges(forest) : e[2] = t)[1]

RECURSIVE DistIn(_, _, _)
\* Number of edges on the path from a down to d in the edge set E; -1 when d
\* is not a or below a.
DistIn(E, a, d) ==
    IF d = a THEN 0
    ELSE IF \A e \in E : e[2] # d THEN -1
    ELSE LET r == DistIn(E, a, (CHOOSE e \in E : e[2] = d)[1])
         IN  IF r = -1 THEN -1 ELSE r + 1

\* Tree distance from a down to d in the declared hierarchy.
Dist(a, d) == DistIn(Edges(forest), a, d)

-----------------------------------------------------------------------------
(* Values and the From impls: the direct ones the caller supplies along    *)
(* every edge, and the generated ones.                                     *)

Value(t, n) == [ty |-> t, payload |-> n]
Unresolved == [ty |-> "!"]

\* A caller supplied impl From<Child> for Parent: wraps the value in the
\* parent's variant.
Direct(P, v) == [ty |-> P, inner |-> v]

ImplsFor(P, G) ==
    { i \in 1..Len(out) :
        out[i].kind = "impl" /\ out[i].root = P /\ out[i].grandchild = G }

RECURSIVE From(_, _)
RECURSIVE ImplBody(_, _)

\* Mutation: the outer hop of the body is left out.
ImplBodyInnerOnly(m, g) == From(m.child, g)

\* fn from(g) of a generated impl m.
ImplBody(m, g) == From(m.root, From(m.child, g))

\* <P>::from(v): resolved to the one impl From<type of v> for P.
From(P, v) ==
    IF <<P, v.ty>> \in Edges(forest) THEN Direct(P, v)
    ELSE IF Cardinality(ImplsFor(P, v.ty)) = 1
         THEN ImplBody(out[CHOOSE i \in ImplsFor(P, v.ty) : TRUE], v)
         ELSE Unresolved

-----------------------------------------------------------------------------
(* Actions.                                                                *)

Init ==
    /\ generics \in GenericsChoices
    /\ forest \in BoundedForests
    /\ out = << ImplFromCall(generics, forest) >>
    /\ last = [kind |-> "none"]

ExpandImplFrom ==
    \E i \in 1..Len(out) :
        /\ out[i].kind = "impl_from"
        /\ out' = Splice(out, i, impl_from(out[i].generics, out[i].roots))
        /\ UNCHANGED <<generics, forest, last>>

ExpandRecursive ==
    \E i \in 1..Len(out) :
        /\ out[i].kind = "recursive"
        /\ out' = Splice(out, i,
                    impl_from_internals_recursive(out[i].generics, out[i].root,
                                                  out[i].child, out[i].list))
        /\ UNCHANGED <<generics, forest, last>>

ExpandMakeImpl ==
    \E i \in 1..Len(out) :
        /\ out[i].kind = "make_impl"
        /\ out' = Splice(out, i,
                    impl_from_internals_make_impl(out[i].generics, out[i].root,
                                                  out[i].child, out[i].grandchild))
        /\ UNCHANGED <<generics, forest, last>>

\* A call of From::from on the finished expansion: a value of type G is
\* converted into the type P above it.
Convert ==
    /\ Done
    /\ \E P \in Types(forest), G \in Types(forest), n \in 1..NumVals :
          /\ Dist(P, G) >= 1
          /\ last' = [kind |-> "from", target |-> P, arg |-> Value(G, n),
                      result |-> From(P, Value(G, n))]
    /\ UNCHANGED <<generics, forest, out>>

Next == ExpandImplFrom \/ ExpandRecursive \/ ExpandMakeImpl \/ Convert

Spec == Init /\ [][Next]_vars

\* The expansion of the worked example.
InitExample ==
    /\ generics = <<"'a", "T: Debug">>
    /\ forest = ExampleForest
    /\ out = << ImplFromCall(generics, forest) >>
    /\ last = [kind |-> "none"]

SpecExample == InitExample /\ [][Next]_vars

-----------------------------------------------------------------------------
(* Properties.                                                             *)

Impls == { i \in 1..Len(out) : out[i].kind = "impl" }
\* The artifacts: emitted impls and make_impl! calls not yet rewritten.
Artifacts == { i \in 1..Len(out) : out[i].kind \in {"impl", "make_impl"} }
Pair(i) == <<out[i].root, out[i].grandchild>>
EmittedPairs == { Pair(i) : i \in Impls }
\* The <<ancestor, descendant>> pairs at tree distance >= 2.
FarPairs ==
    { pr \in Types(forest) \X Types(forest) : Dist(pr[1], pr[2]) >= 2 }

RECURSIVE FullExpand(_)
\* The finished expansion reached by always rewriting the leftmost pending
\* invocation.
FullExpand(items) ==
    IF \A i \in 1..Len(items) : items[i].kind = "impl" THEN items
    ELSE LET i == CHOOSE k \in 1..Len(items) :
                     /\ items[k].kind # "impl"
                     /\ \A j \in 1..(k - 1) : items[j].kind = "impl"
             it == items[i]
             new == CASE it.kind = "impl_from" ->
                            impl_from(it.generics, it.roots)
                      [] it.kind = "recursive" ->
                            impl_from_internals_recursive(it.generics, it.root,
                                                          it.child, it.list)
                      [] it.kind = "make_impl" ->
                            impl_from_internals_make_impl(it.generics, it.root,
                                                          it.child, it.grandchild)
         IN  FullExpand(Splice(items, i, new))

RECURSIVE Chain(_, _)
\* The direct conversions applied one hop at a time from the type of v up to P.
Chain(P, v) == IF v.ty = P THEN v ELSE Chain(P, Direct(Parent(v.ty), v))

\* C1 (completeness): when the expansion is finished, every pair
\* (ancestor, descendant) of the hierarchy at tree distance >= 2 has an
\* emitted impl From<descendant> for ancestor.
C1_Completeness == Done => FarPairs \subseteq EmittedPairs

\* A finished expansion holding the impl for a pair at distance 3.
C1_Witness ==
    /\ Done
    /\ \E i \in Impls : Dist(out[i].root, out[i].grandchild) >= 3

\* C2 (no duplication): no artifact is ever produced for a pair at distance
\* 1, at distance 0, or for two types of which the second is not below the
\* first: the descendant of every artifact is at distance >= 2 below its
\* ancestor.
C2_NoDuplication ==
    \A i \in Artifacts : Dist(out[i].root, out[i].grandchild) >= 2

\* A finished expansion with impls, of a hierarchy that has an edge and two
\* unrelated types.
C2_Witness ==
    /\ Done
    /\ Impls # {}
    /\ \E a \in Types(forest), d \in Types(forest) :
          a # d /\ Dist(a, d) = -1 /\ Dist(d, a) = -1

\* C3 (uniqueness): no pair ever has two artifacts, a finished expansion
\* holds exactly one impl for every pair at distance >= 2, and every
\* finished expansion is the same sequence of impls, whatever the order in
\* which the invocations were rewritten.
C3_Uniqueness ==
    /\ \A i \in Artifacts, j \in Artifacts : Pair(i) = Pair(j) => i = j
    /\ Done =>
         /\ \A pr \in FarPairs :
               Cardinality({ i \in Impls : Pair(i) = pr }) = 1
         /\ out = FullExpand(<< ImplFromCall(generics, forest) >>)

\* A finished expansion with impls for two different ancestors.
C3_Witness ==
    /\ Done
    /\ \E i \in Impls, j \in Impls : out[i].root # out[j].root

\* C4 (composition correctness): a generated conversion applied to a value
\* of a descendant type yields what the direct conversions yield when
\* applied hop by hop along the path from the descendant up to the ancestor.
C4_Composition ==
    last.kind = "from" => last.result = Chain(last.target, last.arg)

\* A generated conversion over three hops has been called.
C4_Witness ==
    /\ last.kind = "from"
    /\ Dist(last.target, last.arg.ty) >= 3
    /\ last.result # Unresolved

\* C5 (binding uniformity): every nested invocation and every emitted impl
\* carries exactly the generics list of the top-level invocation.
C5_BindingUniformity ==
    \A i \in 1..Len(out) : out[i].generics = generics

\* A finished expansion with impls under a two-parameter generics list.
C5_Witness ==
    /\ Done
    /\ Len(generics) = 2
    /\ Cardinality(Impls) >= 2

\* C6 (worked example): for A{B{E,F{J,K}},C{G},D{H,I{L}}} the pairs that
\* get an impl are exactly the eleven listed ones.
C6_WorkedExample ==
    (Done /\ forest = ExampleForest) =>
        EmittedPairs =
            { <<"A", "E">>, <<"A", "F">>, <<"A", "J">>, <<"A", "K">>,
              <<"A", "G">>, <<"A", "H">>, <<"A", "I">>, <<"A", "L">>,
              <<"B", "J">>, <<"B", "K">>, <<"D", "L">> }

\* The example's expansion is finished, with eleven impls.
C6_Witness ==
    /\ Done
    /\ forest = ExampleForest
    /\ Len(out) = 11

\* The entry of the hierarchy named t has an entry with entries of its own.
HasGrandchild(t) ==
    LET E == Edges(forest)
    IN  \E e1 \in E, e2 \in E : e1[1] = t /\ e2[1] = e1[2]

\* C7 (boundary): the ancestor of every artifact has a child with children
\* of its own, so a leaf, and a type whose children are all leaves, is never
\* an ancestor; roots without children yield an empty expansion.
C7_Boundary ==
    /\ \A i \in Artifacts : HasGrandchild(out[i].root)
    /\ (Done /\ \A r \in 1..Len(forest) : forest[r].kids = << >>) => out = << >>

\* A finished, empty expansion of a root without a block, a root with an
\* empty block and a root whose only child has no children.
C7_Witness ==
    /\ Done
    /\ out = << >>
    /\ \E r \in 1..Len(forest) : ~forest[r].block
    /\ \E r \in 1..Len(forest) : forest[r].block /\ forest[r].kids = << >>
    /\ \E r \in 1..Len(forest) :
          Len(forest[r].kids) = 1 /\ forest[r].kids[1].kids = << >>

\* C8: the intermediate of every artifact is the immediate child of the
\* ancestor, and the descendant lies below the intermediate, at any depth.
C8_IntermediateIsChildOfAncestor ==
    \A i \in Artifacts :
        /\ <<out[i].root, out[i].child>> \in Edges(forest)
        /\ Dist(out[i].child, out[i].grandchild) >= 1

\* An impl whose descendant is three levels below the ancestor.
C8_Witness ==
    \E i \in Impls :
        /\ Dist(out[i].root, out[i].grandchild) >= 3
        /\ <<out[i].root, out[i].child>> \in Edges(forest)

\* C9 as stated: the intermediate of every impl is the parent of the
\* descendant.
C9_IntermediateIsParentOfDescendant ==
    \A i \in Impls : out[i].child = Parent(out[i].grandchild)

\* C9 as amended: the intermediate of every impl is the child of the
\* ancestor on the path to the descendant; it is the parent of the
\* descendant exactly when the distance is 2, and above that parent at any
\* greater distance.
C9_IntermediateIsParentOnlyAtDistance2 ==
    \A i \in Impls :
        /\ Dist(out[i].root, out[i].child) = 1
        /\ IF Dist(out[i].root, out[i].grandchild) = 2
           THEN out[i].child = Parent(out[i].grandchild)
           ELSE Dist(out[i].child, Parent(out[i].grandchild)) >= 1

\* An impl at distance 3 whose intermediate is not the descendant's parent.
C9_Witness ==
    \E i \in Impls :
        /\ Dist(out[i].root, out[i].grandchild) = 3
        /\ out[i].child # Parent(out[i].grandchild)

\* C10 (emission ordering): in the expansion, every impl whose ancestor is a
\* child of P stands before every impl whose ancestor is P; and in a
\* finished expansion the inner conversion of every impl (P, C, G) is a
\* direct edge or an impl (C, _, G) standing earlier.
C10_EmissionOrdering ==
    /\ \A i \in Impls, j \in Impls :
          <<out[j].root, out[i].root>> \in Edges(forest) => i < j
    /\ Done =>
         \A j \in Impls :
            \/ <<out[j].child, out[j].grandchild>> \in Edges(forest)
            \/ \E i \in 1..(j - 1) :
                  /\ out[i].root = out[j].child
                  /\ out[i].grandchild = out[j].grandchild

\* A finished expansion in which an impl rests on an earlier generated one.
C10_Witness ==
    /\ Done
    /\ \E j \in Impls, i \in Impls :
          /\ i < j
          /\ out[i].root = out[j].child
          /\ out[i].grandchild = out[j].grandchild

====
